---- MODULE Spec2Model ----
(***************************************************************************)
(* A model of the object tasks (Rectangle, CssSelectorBuilderClass) and of *)
(* the date tasks (isLeapYear, timeSpanToString, angleBetweenClockHands).  *)
(*                                                                         *)
(* JavaScript strings are TLA+ strings; a string is truthy iff it is not   *)
(* the empty string.  Objects live in a heap (a sequence, an object's      *)
(* reference is its index), each with its prototype link and its own       *)
(* properties, and a property read walks the prototype chain.              *)
(***************************************************************************)
EXTENDS Integers, Sequences, FiniteSets

VARIABLES heap, hist, last, rect, area, date, leap, span, spanOut, clock, angle

vars == <<heap, hist, last, rect, area, date, leap, span, spanOut, clock, angle>>

builderVars == <<heap, hist, last>>
rectVars == <<rect, area>>
leapVars == <<date, leap>>
spanVars == <<span, spanOut>>
clockVars == <<clock, angle>>

(***************************************************************************)
(* Bounds of the model.                                                    *)
(***************************************************************************)
MaxObjs == 3

MaxDim == 3

MaxYear == 2400

\* Tokens a caller passes to the builder; the empty string is a string too.
Tokens == {"", "a"}

\* Combinator tokens; "?" is no CSS combinator.
Combinators == {"+", "?"}

Undefined == "undefined"

Truthy(v) == v /= "" /\ v /= Undefined

(***************************************************************************)
(* CssSelectorBuilderClass                                                 *)
(***************************************************************************)
CssFields == {"cssElement", "cssId", "cssClass", "cssAttr", "cssPseudoClass", "cssPseudoElement"}

DuplicateError == "Element, id and pseudo-element should not occur more then one time inside the selector"

OrderError == "Selector parts should be arranged in the following order: element, id, class, attribute, pseudo-class, pseudo-element"

\* The object the constructor leaves: every css field an own property, ''.
\* proto 0 is CssSelectorBuilderClass.prototype; fn 0 means no own stringify.
NewBuilder == [proto |-> 0, own |-> [f \in CssFields |-> ""], fn |-> 0]

\* const cssSelectorBuilder = new CssSelectorBuilderClass();
cssSelectorBuilder == 1

\* A property read this[f]: the own property, or else the prototype's.
RECURSIVE Get(_, _, _)
Get(h, i, f) ==
  IF f \in DOMAIN h[i].own THEN h[i].own[f]
  ELSE IF h[i].proto = 0 THEN Undefined
  ELSE Get(h, h[i].proto, f)

\* The lookup of the property stringify: the object whose closure an own
\* stringify is (combine's arrow function captures o), 0 for the class method.
RECURSIVE StringifyOwner(_, _)
StringifyOwner(h, i) ==
  IF h[i].fn /= 0 THEN h[i].fn
  ELSE IF h[i].proto = 0 THEN 0
  ELSE StringifyOwner(h, h[i].proto)

\* CssSelectorBuilderClass.prototype.stringify, called on this = i.
ClassStringify(h, i) ==
  LET element == IF Truthy(Get(h, i, "cssElement")) THEN Get(h, i, "cssElement") ELSE ""
      id      == IF Truthy(Get(h, i, "cssId")) THEN "#" \o Get(h, i, "cssId") ELSE ""
      clas    == IF Truthy(Get(h, i, "cssClass")) THEN Get(h, i, "cssClass") ELSE ""
      attr    == IF Truthy(Get(h, i, "cssAttr")) THEN "[" \o Get(h, i, "cssAttr") \o "]" ELSE ""
      psClas  == IF Truthy(Get(h, i, "cssPseudoClass")) THEN Get(h, i, "cssPseudoClass") ELSE ""
      psElem  == IF Truthy(Get(h, i, "cssPseudoElement")) THEN "::" \o Get(h, i, "cssPseudoElement") ELSE ""
  IN element \o id \o clas \o attr \o psClas \o psElem

\* o.stringify = () => `${o.s1} ${o.c} ${o.s2}`, with o = k.
ArrowStringify(h, k) == Get(h, k, "s1") \o " " \o Get(h, k, "c") \o " " \o Get(h, k, "s2")

\* x.stringify() for the object x = i.
Stringify(h, i) ==
  IF StringifyOwner(h, i) = 0 THEN ClassStringify(h, i)
  ELSE ArrowStringify(h, StringifyOwner(h, i))

\* ['cssId', ...].some((e) => this[e])
Some(h, this, fields) == \E e \in fields : Truthy(Get(h, this, e))

\* o[f] = v on the object o.
SetOwn(obj, f, v) ==
  [obj EXCEPT !.own = [g \in DOMAIN obj.own \cup {f} |-> IF g = f THEN v ELSE obj.own[g]]]

\* A faulty derivation: the field is written on the receiver itself, which
\* is also what the call returns.
DeriveInPlace(h, this, f, v) ==
  [heap |-> [h EXCEPT ![this] = SetOwn(h[this], f, v)], result |-> this]

\* const o = Object.create(this); Object.assign(o, this); o[f] = v; return o;
\* Object.assign copies the receiver's own enumerable properties (an own
\* stringify among them).
Derive(h, this, f, v) ==
  LET o == [proto |-> this, own |-> h[this].own, fn |-> h[this].fn]
  IN [heap |-> Append(h, SetOwn(o, f, v)), result |-> Len(h) + 1]

Thrown(h, message) == [outcome |-> message, heap |-> h, result |-> 0]

Returned(d) == [outcome |-> "ok", heap |-> d.heap, result |-> d.result]

element(h, this, value) ==
  IF Truthy(Get(h, this, "cssElement")) THEN Thrown(h, DuplicateError)
  ELSE IF Some(h, this, {"cssId", "cssClass", "cssAttr", "cssPseudoClass", "cssPseudoElement"})
       THEN Thrown(h, OrderError)
  ELSE Returned(Derive(h, this, "cssElement", value))

id(h, this, value) ==
  IF Truthy(Get(h, this, "cssId")) THEN Thrown(h, DuplicateError)
  ELSE IF Some(h, this, {"cssClass", "cssAttr", "cssPseudoClass", "cssPseudoElement"})
       THEN Thrown(h, OrderError)
  ELSE Returned(Derive(h, this, "cssId", value))

\* o.cssClass += `.${value}` reads o.cssClass after Object.assign: the
\* receiver's value (own or inherited).
class(h, this, value) ==
  IF Some(h, this, {"cssAttr", "cssPseudoClass", "cssPseudoElement"})
  THEN Thrown(h, OrderError)
  ELSE Returned(Derive(h, this, "cssClass", Get(h, this, "cssClass") \o "." \o value))

attr(h, this, value) ==
  IF Some(h, this, {"cssPseudoClass", "cssPseudoElement"}) THEN Thrown(h, OrderError)
  ELSE Returned(Derive(h, this, "cssAttr", value))

pseudoClass(h, this, value) ==
  IF Truthy(Get(h, this, "cssPseudoElement")) THEN Thrown(h, OrderError)
  ELSE Returned(Derive(h, this, "cssPseudoClass", Get(h, this, "cssPseudoClass") \o ":" \o value))

pseudoElement(h, this, value) ==
  IF Truthy(Get(h, this, "cssPseudoElement")) THEN Thrown(h, DuplicateError)
  ELSE Returned(Derive(h, this, "cssPseudoElement", value))

\* A faulty combine: the two rendered selectors are stored the wrong way round.
combineSwapped(h, this, selector1, combinator, selector2) ==
  LET k == Len(h) + 1
      o == [proto |-> this,
            own |-> [f \in {"s1", "s2", "c"} |->
                       IF f = "s1" THEN Stringify(h, selector2)
                       ELSE IF f = "s2" THEN Stringify(h, selector1)
                       ELSE combinator],
            fn |-> k]
  IN [outcome |-> "ok", heap |-> Append(h, o), result |-> k]

\* Object.create(this) copies nothing: o has the own properties s1, s2, c
\* and stringify only, and inherits the css fields of the receiver.
combine(h, this, selector1, combinator, selector2) ==
  LET k == Len(h) + 1
      o == [proto |-> this,
            own |-> [f \in {"s1", "s2", "c"} |->
                       IF f = "s1" THEN Stringify(h, selector1)
                       ELSE IF f = "s2" THEN Stringify(h, selector2)
                       ELSE combinator],
            fn |-> k]
  IN [outcome |-> "ok", heap |-> Append(h, o), result |-> k]

Kinds == {"element", "id", "class", "attr", "pseudoClass", "pseudoElement"}

Call(h, kind, this, value) ==
  CASE kind = "element" -> element(h, this, value)
    [] kind = "id" -> id(h, this, value)
    [] kind = "class" -> class(h, this, value)
    [] kind = "attr" -> attr(h, this, value)
    [] kind = "pseudoClass" -> pseudoClass(h, this, value)
    [] kind = "pseudoElement" -> pseudoElement(h, this, value)

(***************************************************************************)
(* The builder's state machine: a caller holds references to every object *)
(* made so far and calls any method on any of them with any token.  hist   *)
(* records, per object, how it was made and what it was and rendered when  *)
(* the call returned (history only, read by no method); last is the latest *)
(* call, its receiver and its outcome (the token of a call that returned   *)
(* is in hist).                                                            *)
(***************************************************************************)
NoCall == [op |-> "none", this |-> 0, left |-> 0, right |-> 0, outcome |-> "none", result |-> 0]

Made(how, calls, from, l, c, r, h, i) ==
  [made |-> how, calls |-> calls, from |-> from, left |-> l, comb |-> c, right |-> r,
   obj |-> IF i \in DOMAIN h THEN h[i] ELSE NewBuilder,
   text |-> IF i \in DOMAIN h THEN Stringify(h, i) ELSE ""]

RectIdle == rect = <<>> /\ area = <<>>

LeapIdle == date = <<>> /\ leap = <<>>

SpanIdle == span = <<>> /\ spanOut = <<>>

ClockIdle == clock = <<>> /\ angle = <<>>

BuilderIdle == heap = <<>> /\ hist = <<>> /\ last = <<>>

InitBuilder ==
  /\ heap = <<NewBuilder>>
  /\ hist = <<Made("new", <<>>, 0, 0, "", 0, <<NewBuilder>>, 1)>>
  /\ last = NoCall
  /\ RectIdle /\ LeapIdle /\ SpanIdle /\ ClockIdle

\* One builder call this.kind(value): the whole method, throw or return.
BuilderCall(kind, this, value) ==
  LET r == Call(heap, kind, this, value)
  IN /\ (r.outcome = "ok" => Len(heap) < MaxObjs)
     /\ heap' = r.heap
     /\ hist' = IF r.outcome = "ok"
                THEN Append(hist, Made("derive", Append(hist[this].calls, <<kind, value>>), this, 0, "", 0,
                                        r.heap, r.result))
                ELSE hist
     /\ last' = [op |-> kind, this |-> this, left |-> 0, right |-> 0,
                 outcome |-> r.outcome, result |-> r.result]
     /\ UNCHANGED <<rectVars, leapVars, spanVars, clockVars>>

Element == \E this \in 1..Len(heap), value \in Tokens : BuilderCall("element", this, value)

Id == \E this \in 1..Len(heap), value \in Tokens : BuilderCall("id", this, value)

Class == \E this \in 1..Len(heap), value \in Tokens : BuilderCall("class", this, value)

Attr == \E this \in 1..Len(heap), value \in Tokens : BuilderCall("attr", this, value)

PseudoClass == \E this \in 1..Len(heap), value \in Tokens : BuilderCall("pseudoClass", this, value)

PseudoElement == \E this \in 1..Len(heap), value \in Tokens : BuilderCall("pseudoElement", this, value)

\* builder.combine(selector1, combinator, selector2): combine is called on
\* the exported facade, as the task's examples do.
Combine ==
  \E this \in {cssSelectorBuilder}, selector1 \in 1..Len(heap), selector2 \in 1..Len(heap),
     combinator \in Combinators :
    LET r == combine(heap, this, selector1, combinator, selector2)
    IN /\ Len(heap) < MaxObjs
       /\ heap' = r.heap
       /\ hist' = Append(hist, Made("combine", hist[this].calls, this, selector1, combinator,
                                 selector2, r.heap, r.result))
       /\ last' = [op |-> "combine", this |-> this, left |-> selector1, right |-> selector2,
                   outcome |-> r.outcome, result |-> r.result]
       /\ UNCHANGED <<rectVars, leapVars, spanVars, clockVars>>

NextBuilder == Element \/ Id \/ Class \/ Attr \/ PseudoClass \/ PseudoElement \/ Combine

SpecBuilder == InitBuilder /\ [][NextBuilder]_vars

(***************************************************************************)
(* Claims about the selector builder.                                      *)
(***************************************************************************)
\* The fixed order of the fragment kinds.
Rank(kind) ==
  CASE kind = "element" -> 1 [] kind = "id" -> 2 [] kind = "class" -> 3
    [] kind = "attr" -> 4 [] kind = "pseudoClass" -> 5 [] kind = "pseudoElement" -> 6

Singletons == {"element", "id", "pseudoElement"}

\* The kinds the calls of a chain have set.
KindsOf(calls) == {calls[k][1] : k \in DOMAIN calls}

\* A chain of the shape element? id? class* attr? pseudoClass* pseudoElement?
Shape(calls) ==
  /\ \A j, k \in DOMAIN calls : j < k => Rank(calls[j][1]) <= Rank(calls[k][1])
  /\ \A j, k \in DOMAIN calls :
       (j /= k /\ calls[j][1] = calls[k][1]) => calls[j][1] \in {"class", "pseudoClass"}

\* An object built by builder calls alone, starting from the facade.
RECURSIVE Plain(_)
Plain(i) == hist[i].made /= "combine" /\ (hist[i].from = 0 \/ Plain(hist[i].from))

\* The text one fragment contributes to a selector.
Fragment(call) ==
  CASE call[1] = "element" -> call[2]
    [] call[1] = "id" -> "#" \o call[2]
    [] call[1] = "class" -> "." \o call[2]
    [] call[1] = "attr" -> "[" \o call[2] \o "]"
    [] call[1] = "pseudoClass" -> ":" \o call[2]
    [] call[1] = "pseudoElement" -> "::" \o call[2]

RECURSIVE Render(_)
Render(calls) == IF calls = <<>> THEN "" ELSE Fragment(Head(calls)) \o Render(Tail(calls))

\* C1: a call that would add a kind earlier in the fixed order than a kind
\* already set on its receiver is rejected, with the order error (with the
\* duplicate error when the call repeats element, id or pseudoElement);
\* class() after attr(), pseudoClass() or pseudoElement() fails with the order
\* error; hence the kinds of every builder value were added in the fixed order.
C1_OrderEnforced ==
  /\ (last.op \in Kinds /\ \E k \in KindsOf(hist[last.this].calls) : Rank(k) > Rank(last.op))
       => IF last.op \in Singletons \cap KindsOf(hist[last.this].calls)
          THEN last.outcome = DuplicateError
          ELSE last.outcome = OrderError
  /\ (last.op = "class"
        /\ KindsOf(hist[last.this].calls) \cap {"attr", "pseudoClass", "pseudoElement"} /= {})
       => last.outcome = OrderError
  /\ \A i \in 1..Len(heap) : \A j, k \in DOMAIN hist[i].calls :
       j < k => Rank(hist[i].calls[j][1]) <= Rank(hist[i].calls[k][1])

\* C2: a second element(), id() or pseudoElement() in a chain fails with the
\* duplicate error, whatever the token of the first call and whatever was
\* added in between.
C2_DuplicateRejected ==
  (last.op \in Singletons /\ last.op \in KindsOf(hist[last.this].calls))
    => last.outcome = DuplicateError

\* C3: every builder call, returning or throwing, leaves every object made
\* so far (its receiver among them) with the fields and the stringify()
\* result it had when it was made; a call that returns returns a new object;
\* the facade keeps rendering the empty selector.
C3_ReceiverUnchanged ==
  /\ Len(hist) = Len(heap)
  /\ \A i \in 1..Len(heap) : heap[i] = hist[i].obj /\ Stringify(heap, i) = hist[i].text
  /\ Stringify(heap, cssSelectorBuilder) = ""
  /\ last.outcome = "ok" => (last.result = Len(heap) /\ last.result /= last.this)

\* Two derivations branched from one base render differently, and a call on
\* one of them has thrown.
C3_Witness ==
  /\ \E i, j \in 1..Len(heap) :
       /\ i /= j /\ hist[i].made = "derive" /\ hist[j].made = "derive"
       /\ hist[i].from = hist[j].from
       /\ Stringify(heap, i) /= Stringify(heap, j)
       /\ last.this = i
  /\ last.outcome \in {DuplicateError, OrderError}

\* C4: an object built by an accepted chain element? id? class* attr?
\* pseudoClass* pseudoElement? renders as its fragments in call order, each
\* with its separator, and nothing else.
C4_StringifyRenders ==
  \A i \in 1..Len(heap) :
    (Plain(i) /\ Shape(hist[i].calls)) => Stringify(heap, i) = Render(hist[i].calls)

\* C5: the result of combine(A, c, B) renders, from then on, as
\* A.stringify() + ' ' + c + ' ' + B.stringify(), whatever c is.
C5_CombineRenders ==
  \A i \in 1..Len(heap) :
    hist[i].made = "combine" =>
      Stringify(heap, i) =
        Stringify(heap, hist[i].left) \o " " \o hist[i].comb \o " " \o Stringify(heap, hist[i].right)

\* A built selector was combined with another one by a token that is no CSS
\* combinator.
C5_Witness ==
  \E i \in 1..Len(heap) :
    /\ hist[i].made = "combine" /\ hist[i].comb = "?"
    /\ hist[hist[i].left].made = "derive"
    /\ Stringify(heap, hist[i].left) /= ""
    /\ Stringify(heap, hist[i].left) /= Stringify(heap, hist[i].right)

\* C10: attr(v2) after attr(v1) returns a selector that renders '[v2]' only,
\* while repeated class() calls render every token in call order.
C10_AttrOverwrites ==
  /\ (last.op = "attr" /\ last.outcome = "ok" /\ Plain(last.this)
        /\ KindsOf(hist[last.this].calls) = {"attr"})
       => Stringify(heap, last.result) =
            "[" \o hist[last.result].calls[Len(hist[last.result].calls)][2] \o "]"
  /\ (last.op \in {"class", "pseudoClass"} /\ last.outcome = "ok" /\ Plain(last.this)
        /\ KindsOf(hist[last.this].calls) = {last.op})
       => Stringify(heap, last.result) = Render(hist[last.result].calls)

(***************************************************************************)
(* Rectangle                                                               *)
(***************************************************************************)
Dims == 0..MaxDim

\* The object r the function returns, with the parameters widthe and heighte
\* its arrow function getArea has captured.
Rectangle(widthe, heighte) ==
  [width |-> widthe, height |-> heighte, widthe |-> widthe, heighte |-> heighte]

\* getArea: () => widthe * heighte
getArea(r) == r.widthe * r.heighte

InitRect ==
  /\ \E widthe \in Dims, heighte \in Dims : rect = Rectangle(widthe, heighte)
  /\ area = [called |-> FALSE, value |-> 0, width |-> 0, height |-> 0]
  /\ BuilderIdle /\ LeapIdle /\ SpanIdle /\ ClockIdle

\* r.width = v, r.height = v: assignments by the code that holds r.
SetWidth ==
  \E v \in Dims :
    /\ rect' = [rect EXCEPT !.width = v]
    /\ UNCHANGED <<area, builderVars, leapVars, spanVars, clockVars>>

SetHeight ==
  \E v \in Dims :
    /\ rect' = [rect EXCEPT !.height = v]
    /\ UNCHANGED <<area, builderVars, leapVars, spanVars, clockVars>>

\* r.getArea(), recorded with the fields r has at the call.
GetArea ==
  /\ area' = [called |-> TRUE, value |-> getArea(rect), width |-> rect.width, height |-> rect.height]
  /\ UNCHANGED <<rect, builderVars, leapVars, spanVars, clockVars>>

NextRect == SetWidth \/ SetHeight \/ GetArea

SpecRect == InitRect /\ [][NextRect]_vars

\* C6: every call of the area accessor returns the product of the width and
\* height fields the rectangle has at the time of the call.
C6_AreaOfCurrentFields == area.called => area.value = area.width * area.height

(***************************************************************************)
(* Date arithmetic of the platform (ECMAScript Date), as far as the date   *)
(* tasks use it.  Days are counted from 1 January 1970.                    *)
(***************************************************************************)
\* The day number of 1 January of year y.
DayFromYear(y) ==
  365 * (y - 1970) + ((y - 1969) \div 4) - ((y - 1901) \div 100) + ((y - 1601) \div 400)

DaysInYear(y) == DayFromYear(y + 1) - DayFromYear(y)

\* new Date(year, month, day): a year of 0..99 means 1900 + year; the value
\* is the day number of the day-th day (from 1) of month (from 0) of that
\* year, a day past the month's end counting on into the next month.
\* Only months 0 and 1 are used.
DateOf(year, month, day) ==
  LET yr == IF 0 <= year /\ year <= 99 THEN 1900 + year ELSE year
  IN DayFromYear(yr) + (IF month = 1 THEN 31 ELSE 0) + day - 1

\* The year day t falls in: the one whose first day is the last not after t.
\* It lies between 1970 + t/366 and 1970 + t/365.
YearFromTime(t) ==
  LET a == 1970 + (t \div 366)
      b == 1970 + (t \div 365)
      lo == IF a < b THEN a ELSE b
      hi == IF a < b THEN b ELSE a
  IN CHOOSE y \in (lo - 1)..(hi + 1) : DayFromYear(y) <= t /\ t < DayFromYear(y + 1)

\* Date.prototype.getDate for a day number in January .. March.
GetDate(t) ==
  LET y == YearFromTime(t)
      d == t - DayFromYear(y)
      feb == IF DaysInYear(y) = 366 THEN 29 ELSE 28
  IN IF d < 31 THEN d + 1
     ELSE IF d < 31 + feb THEN d - 30
     ELSE d - 30 - feb

(***************************************************************************)
(* isLeapYear                                                              *)
(***************************************************************************)
Years == 0..MaxYear

\* The argument is a date of the year fullYear: new Date(date).getFullYear().
isLeapYear(fullYear) ==
  LET data == DateOf(fullYear, 1, 29)
  IN IF GetDate(data) = 29 THEN TRUE ELSE FALSE

InitLeap ==
  /\ date \in Years
  /\ leap = [called |-> FALSE, value |-> FALSE]
  /\ BuilderIdle /\ RectIdle /\ SpanIdle /\ ClockIdle

IsLeapYear ==
  /\ leap' = [called |-> TRUE, value |-> isLeapYear(date)]
  /\ UNCHANGED <<date, builderVars, rectVars, spanVars, clockVars>>

NextLeap == IsLeapYear

SpecLeap == InitLeap /\ [][NextLeap]_vars

\* C9: isLeapYear returns true iff the date's year y is divisible by 4 and
\* (not divisible by 100 or divisible by 400).
C9_LeapRule ==
  leap.called => (leap.value <=> (date % 4 = 0 /\ (date % 100 /= 0 \/ date % 400 = 0)))

(***************************************************************************)
(* timeSpanToString                                                        *)
(***************************************************************************)
Digit == <<"0", "1", "2", "3", "4", "5", "6", "7", "8", "9">>

\* The decimal digits of a natural number.
RECURSIVE Digits(_)
Digits(n) == IF n < 10 THEN Digit[n + 1] ELSE Digits(n \div 10) \o Digit[(n % 10) + 1]

\* Number.prototype.toString of an integer.
ToString(n) == IF n < 0 THEN "-" \o Digits(0 - n) ELSE Digits(n)

\* The local time fields of the dates the specification passes: the values
\* at which a difference changes its number of digits, and the examples'.
StartHours == {0, 1, 10}
StartMinutes == {0, 10}
StartSeconds == {0, 10}
StartMillis == {0, 1, 100}
EndHours == {0, 1, 9, 10, 11, 15, 23}
EndMinutes == {0, 9, 20, 30, 59}
EndSeconds == {0, 9, 10, 20, 59}
EndMillis == {0, 9, 10, 99, 100, 250, 453, 999}

Instant(hs, ms, ss, ls) == [hours : hs, minutes : ms, seconds : ss, milliseconds : ls]

\* A faulty formatting: a two-digit millisecond difference is left unpadded.
timeSpanToStringShort(start, end) ==
  LET h0 == ToString(end.hours - start.hours)
      m0 == ToString(end.minutes - start.minutes)
      s0 == ToString(end.seconds - start.seconds)
      l0 == ToString(end.milliseconds - start.milliseconds)
      hours == IF Len(h0) = 1 THEN "0" \o h0 ELSE h0
      minutes == IF Len(m0) = 1 THEN "0" \o m0 ELSE m0
      seconds == IF Len(s0) = 1 THEN "0" \o s0 ELSE s0
      milesecond == IF Len(l0) = 1 THEN "00" \o l0 ELSE l0
  IN hours \o ":" \o minutes \o ":" \o seconds \o "." \o milesecond

\* start and end are new Date(startDate) and new Date(endDate), read through
\* getHours, getMinutes, getSeconds and getMilliseconds.
timeSpanToString(start, end) ==
  LET h0 == ToString(end.hours - start.hours)
      m0 == ToString(end.minutes - start.minutes)
      s0 == ToString(end.seconds - start.seconds)
      l0 == ToString(end.milliseconds - start.milliseconds)
      hours == IF Len(h0) = 1 THEN "0" \o h0 ELSE h0
      minutes == IF Len(m0) = 1 THEN "0" \o m0 ELSE m0
      seconds == IF Len(s0) = 1 THEN "0" \o s0 ELSE s0
      l1 == IF Len(l0) = 1 THEN "00" \o l0 ELSE l0
      milesecond == IF Len(l1) = 2 THEN "0" \o l1 ELSE l1
  IN hours \o ":" \o minutes \o ":" \o seconds \o "." \o milesecond

InitSpan ==
  /\ span \in [start : Instant(StartHours, StartMinutes, StartSeconds, StartMillis),
               end : Instant(EndHours, EndMinutes, EndSeconds, EndMillis)]
  /\ spanOut = [called |-> FALSE, value |-> ""]
  /\ BuilderIdle /\ RectIdle /\ LeapIdle /\ ClockIdle

TimeSpanToString ==
  /\ spanOut' = [called |-> TRUE, value |-> timeSpanToString(span.start, span.end)]
  /\ UNCHANGED <<span, builderVars, rectVars, leapVars, clockVars>>

NextSpan == TimeSpanToString

SpecSpan == InitSpan /\ [][NextSpan]_vars

\* A number below 100 in exactly two digits, one below 1000 in exactly three.
TwoDigits(n) == Digit[(n \div 10) + 1] \o Digit[(n % 10) + 1]

ThreeDigits(n) == Digit[(n \div 100) + 1] \o TwoDigits(n % 100)

\* No field of the end is below the same field of the start.
FieldsOrdered(sp) ==
  /\ sp.end.hours >= sp.start.hours
  /\ sp.end.minutes >= sp.start.minutes
  /\ sp.end.seconds >= sp.start.seconds
  /\ sp.end.milliseconds >= sp.start.milliseconds

\* C8: when no field of the end is below the start's, the result is the four
\* field differences in 2, 2, 2 and 3 digits, 'HH:mm:ss.sss', each taken on
\* its own.
C8_FieldDifferences ==
  (spanOut.called /\ FieldsOrdered(span)) =>
    /\ spanOut.value =
         TwoDigits(span.end.hours - span.start.hours) \o ":"
           \o TwoDigits(span.end.minutes - span.start.minutes) \o ":"
           \o TwoDigits(span.end.seconds - span.start.seconds) \o "."
           \o ThreeDigits(span.end.milliseconds - span.start.milliseconds)
    /\ Len(spanOut.value) = 12

\* The 250 ms example, and a two-digit difference in every field.
C8_Witness ==
  /\ spanOut.called /\ FieldsOrdered(span)
  /\ \/ spanOut.value = "00:00:00.250"
     \/ spanOut.value = "01:00:00.000"
     \/ spanOut.value = "13:20:10.099"

(***************************************************************************)
(* angleBetweenClockHands                                                  *)
(*                                                                         *)
(* The code counts in minute marks (a thirtieth of pi); hours * 5 +        *)
(* minutes * (5 / 60) is a multiple of a twelfth of a mark.  The model     *)
(* counts in twelfths of a mark, that is in units of pi / 360 (half a      *)
(* degree), so every value is an integer; the result is in the same unit.  *)
(***************************************************************************)
\* date.getUTCHours() and date.getMinutes() are the arguments.
angleBetweenClockHands(utcHours, getMinutes) ==
  LET hours0 == IF utcHours = 12 THEN 0 ELSE utcHours
      minutes0 == IF getMinutes = 60 THEN 0 ELSE getMinutes
      hours1 == IF getMinutes = 60 THEN hours0 + 1 ELSE hours0
      hours == IF hours1 > 12 THEN hours1 - 12 ELSE hours1
      htom0 == hours * 5 * 12 + minutes0
      htom == IF htom0 > 30 * 12 THEN htom0 - 30 * 12 ELSE htom0
      minutes == (IF minutes0 > 30 THEN minutes0 - 30 ELSE minutes0) * 12
  IN IF htom > minutes THEN htom - minutes
     ELSE IF minutes > htom THEN minutes - htom
     ELSE 0

InitClock ==
  /\ clock \in [utcHours : 0..23, minutes : 0..59]
  /\ angle = [called |-> FALSE, value |-> 0]
  /\ BuilderIdle /\ RectIdle /\ LeapIdle /\ SpanIdle

AngleBetweenClockHands ==
  /\ angle' = [called |-> TRUE, value |-> angleBetweenClockHands(clock.utcHours, clock.minutes)]
  /\ UNCHANGED <<clock, builderVars, rectVars, leapVars, spanVars>>

NextClock == AngleBetweenClockHands

SpecClock == InitClock /\ [][NextClock]_vars

\* The angle between the hands in units of pi / 360: the hour hand is at
\* 30 * (h mod 12) + m / 2 degrees, the minute hand at 6 * m degrees, and the
\* shorter of the two arcs between them is taken.
ShorterArc(h, m) ==
  LET hourHand == 60 * (h % 12) + m
      minuteHand == 12 * m
      d == IF hourHand > minuteHand THEN hourHand - minuteHand ELSE minuteHand - hourHand
  IN IF d > 720 - d THEN 720 - d ELSE d

\* C7: the result is the shorter arc between the hour hand and the minute
\* hand, in radians, and so lies in [0, pi].
C7_ShorterArc ==
  angle.called =>
    /\ angle.value = ShorterArc(clock.utcHours, clock.minutes)
    /\ 0 <= angle.value /\ angle.value <= 360

====
